---- MODULE Spec2Model ----
(***************************************************************************)
(* SIR epidemic simulation (src/simulation.py): the Euler integrator       *)
(* run_sir_model and the main loop that runs it over the scenario list.    *)
(*                                                                         *)
(* Numbers.  The program computes in binary floating point (numpy float64: *)
(* every +, -, *, / is rounded to nearest, ties to even).  The model keeps *)
(* that arithmetic and narrows the mantissa from 53 bits to Prec bits: a   *)
(* finite value is m * 2^e with m = 0 or 2^(Prec-1) <= |m| < 2^Prec.  The   *)
(* exponent is unbounded (no overflow to inf, no underflow to 0 is         *)
(* modelled); inf and nan arise only from a division by zero, as in numpy. *)
(* Signed zeros are not distinguished: no denominator of the program can   *)
(* be -0.0.                                                                *)
(***************************************************************************)
EXTENDS Integers, Sequences, FiniteSets, TLC

\* Mantissa width of the modelled floating-point format.
Prec == 11

\* Largest time_steps of the enumerated configurations.
MaxSteps == 3

(***************************************************************************)
(* Floating-point layer                                                    *)
(***************************************************************************)
Pow2(k) == 2 ^ k

Abs(x) == IF x < 0 THEN -x ELSE x

Sgn(x) == IF x < 0 THEN -1 ELSE IF x > 0 THEN 1 ELSE 0

RECURSIVE BitLen(_)
BitLen(a) == IF a = 0 THEN 0 ELSE 1 + BitLen(a \div 2)

Fin(m, e) == [k |-> "fin", m |-> m, e |-> e]

Zero == Fin(0, 0)

NaN == [k |-> "nan", m |-> 0, e |-> 0]

PInf == [k |-> "pinf", m |-> 0, e |-> 0]

NInf == [k |-> "ninf", m |-> 0, e |-> 0]

\* Python's None, for the two optional arguments.
None == [k |-> "none", m |-> 0, e |-> 0]

IsFin(x) == x.k = "fin"

\* The float nearest to m * 2^e (m any integer), ties to even.
Round(m, e) ==
  IF m = 0 THEN Zero
  ELSE LET a == Abs(m)
           n == BitLen(a)
       IN IF n <= Prec
          THEN Fin(Sgn(m) * a * Pow2(Prec - n), e - (Prec - n))
          ELSE LET d    == n - Prec
                   q    == a \div Pow2(d)
                   r    == a % Pow2(d)
                   half == Pow2(d - 1)
                   up   == r > half \/ (r = half /\ q % 2 = 1)
                   q1   == IF up THEN q + 1 ELSE q
               IN IF q1 = Pow2(Prec)
                  THEN Fin(Sgn(m) * Pow2(Prec - 1), e + d + 1)
                  ELSE Fin(Sgn(m) * q1, e + d)

\* A Python int as a float.
FromInt(n) == Round(n, 0)

\* The literal num/den (a decimal such as 0.1), correctly rounded.
FromRatio(num, den) ==
  LET a == Abs(num) * Pow2(Prec + 2 + BitLen(den))
      q == a \div den
      r == a % den
  IN Round(Sgn(num) * (2 * q + (IF r = 0 THEN 0 ELSE 1)), -(Prec + 3 + BitLen(den)))

FNeg(x) ==
  CASE x.k = "fin"  -> Fin(-x.m, x.e)
    [] x.k = "pinf" -> NInf
    [] x.k = "ninf" -> PInf
    [] OTHER        -> x

\* Sign of a value: -1, 0, 1 (nan has none: 2).
FSign(x) ==
  CASE x.k = "fin"  -> Sgn(x.m)
    [] x.k = "pinf" -> 1
    [] x.k = "ninf" -> -1
    [] OTHER        -> 2

AddFin(x, y) ==
  IF x.m = 0 THEN y
  ELSE IF y.m = 0 THEN x
  ELSE LET hi == IF x.e >= y.e THEN x ELSE y
           lo == IF x.e >= y.e THEN y ELSE x
           d  == hi.e - lo.e
       IN IF d >= Prec + 2 THEN hi
          ELSE Round(hi.m * Pow2(d) + lo.m, lo.e)

FAdd(x, y) ==
  CASE x.k = "nan" \/ y.k = "nan"       -> NaN
    [] x.k = "pinf" /\ y.k = "ninf"     -> NaN
    [] x.k = "ninf" /\ y.k = "pinf"     -> NaN
    [] x.k \in {"pinf", "ninf"}         -> x
    [] y.k \in {"pinf", "ninf"}         -> y
    [] OTHER                            -> AddFin(x, y)

FSub(x, y) == FAdd(x, FNeg(y))

FMul(x, y) ==
  CASE x.k = "nan" \/ y.k = "nan"       -> NaN
    [] IsFin(x) /\ IsFin(y)             -> Round(x.m * y.m, x.e + y.e)
    [] FSign(x) * FSign(y) = 0          -> NaN
    [] FSign(x) * FSign(y) > 0          -> PInf
    [] OTHER                            -> NInf

DivFin(x, y) ==
  LET a == Abs(x.m) * Pow2(Prec + 2)
      q == a \div Abs(y.m)
      r == a % Abs(y.m)
  IN Round(Sgn(x.m) * Sgn(y.m) * (2 * q + (IF r = 0 THEN 0 ELSE 1)),
           x.e - y.e - (Prec + 3))

\* numpy's true division: x / 0 is inf or nan (a warning, no exception).
FDiv(x, y) ==
  CASE x.k = "nan" \/ y.k = "nan"       -> NaN
    [] ~IsFin(x) /\ ~IsFin(y)           -> NaN
    [] ~IsFin(x)                        -> IF (FSign(x) > 0) = (FSign(y) >= 0) THEN PInf ELSE NInf
    [] ~IsFin(y)                        -> Zero
    [] y.m = 0 /\ x.m = 0               -> NaN
    [] y.m = 0                          -> IF x.m > 0 THEN PInf ELSE NInf
    [] OTHER                            -> DivFin(x, y)

\* Comparisons; every comparison with nan is false, except !=.
FLt(x, y) ==
  CASE x.k = "nan" \/ y.k = "nan"       -> FALSE
    [] x = y                            -> FALSE
    [] x.k = "ninf" \/ y.k = "pinf"     -> TRUE
    [] x.k = "pinf" \/ y.k = "ninf"     -> FALSE
    [] OTHER                            -> AddFin(x, FNeg(y)).m < 0

FGt(x, y) == FLt(y, x)

FEq(x, y) == x.k # "nan" /\ y.k # "nan" /\ x = y

FNe(x, y) == ~FEq(x, y)

FGe(x, y) == FGt(x, y) \/ FEq(x, y)

FLe(x, y) == FLt(x, y) \/ FEq(x, y)

(***************************************************************************)
(* run_sir_model: the pure parts of one loop iteration                     *)
(***************************************************************************)
\* Mutant: the switch made only after the intervention day (> for >=).
CurrentBetaStrict(cfg, ti) ==
  IF cfg.intervencao_dia # None /\ FGt(ti, cfg.intervencao_dia)
  THEN cfg.beta_pos_intervencao
  ELSE cfg.beta

\* Mutant: the intervention rate used from the first step, whatever the day.
CurrentBetaNoTimeTest(cfg, ti) ==
  IF cfg.intervencao_dia # None
  THEN cfg.beta_pos_intervencao
  ELSE cfg.beta

\* Lines 102-104: the rate of the step that starts at time ti.
CurrentBeta(cfg, ti) ==
  IF cfg.intervencao_dia # None /\ FGe(ti, cfg.intervencao_dia)
  THEN cfg.beta_pos_intervencao
  ELSE cfg.beta

\* Mutant: the sign of d_S lost.
DerivSPositive(b, s, inf, n) == FDiv(FMul(FMul(b, s), inf), n)

\* Line 108: d_S = -current_beta * S[i] * I[i] / N
DerivS(b, s, inf, n) == FDiv(FMul(FMul(FNeg(b), s), inf), n)

\* Line 110: d_I = (current_beta * S[i] * I[i] / N) - gamma * I[i]
DerivI(b, s, inf, n, g) == FSub(FDiv(FMul(FMul(b, s), inf), n), FMul(g, inf))

\* Line 112: d_R = gamma * I[i]
DerivR(g, inf) == FMul(g, inf)

\* Lines 115-117: x + d * dt
Euler(x, d, h) == FAdd(x, FMul(d, h))

\* Lines 120-121: Python's max(0, x) is x when x > 0 and 0 otherwise (nan too).
ClampLow(x) == IF FGt(x, Zero) THEN x ELSE Zero

\* Mutant: the clamp of R written like those of S and I, with min for max.
ClampHighZero(n, x) == IF FLt(x, Zero) THEN x ELSE Zero

\* Line 122: Python's min(N, x) is x when x < N and N otherwise (nan too).
ClampHigh(n, x) == IF FLt(x, n) THEN x ELSE n

\* Line 125: total = S[i+1] + I[i+1] + R[i+1]
Total(s, inf, r) == FAdd(FAdd(s, inf), r)

\* Line 126: the guard of the normalisation.
NeedsScaling(tot, n) == FNe(tot, n) /\ FGt(tot, Zero)

\* Line 127: fator = N / total
Fator(n, tot) == FDiv(n, tot)

\* Mutant: the normalisation left out.
NormaliseSkipped(x, tot, n) == x

\* Lines 126-130: the value of one compartment after the normalisation.
Normalise(x, tot, n) == IF NeedsScaling(tot, n) THEN FMul(x, Fator(n, tot)) ELSE x

\* Line 88: np.linspace(0, total_time, time_steps + 1): k * step for k < n,
\* and the last point set to the stop value itself.
Linspace(stop, n) ==
  LET step == FDiv(stop, FromInt(n))
  IN [k \in 1..(n + 1) |-> IF k = n + 1 THEN stop ELSE FMul(FromInt(k - 1), step)]

\* Lines 91-93: np.zeros(n)
Zeros(n) == [k \in 1..n |-> Zero]

\* Mutant: the loop stops one iteration early.
LoopRunsShort(cfg, k) == k < cfg.time_steps - 1

\* Line 100: range(time_steps)
LoopRuns(cfg, k) == k < cfg.time_steps

(***************************************************************************)
(* State                                                                   *)
(***************************************************************************)
VARIABLES
  datas,        \* the scenario list the main loop iterates over
  idx,          \* position of the main loop in datas (1-based)
  pc,           \* "main", "loop" (inside run_sir_model), "error", "exit"
  err,          \* the exception that ended the program, or "none"
  alloc,        \* whether np.zeros has allocated I, R and S (lines 91-93)
  dt, t, S, I, R,   \* locals of run_sir_model; X[k + 1] is the code's X[k]
  i,            \* the loop index of line 100
  total,        \* the last value of the local total (None before the first)
  written,      \* history: the indices of S, I, R assigned so far
  betaUsed,     \* history: current_beta of every iteration executed
  all_results   \* what the main loop has collected

vars == <<datas, idx, pc, err, alloc, dt, t, S, I, R, i, total, written,
          betaUsed, all_results>>

\* The arguments of the call in progress (lines 227-237).
Cfg == datas[idx]

Config(n, i0, r0, b, g, tt, ts, day, b2) ==
  [N |-> n, I0 |-> i0, R0_param |-> r0, beta |-> b, gamma |-> g,
   total_time |-> tt, time_steps |-> ts,
   intervencao_dia |-> day, beta_pos_intervencao |-> b2]

\* The constraints of a Model Configuration.
ValidConfig(c) ==
  /\ IsFin(c.N) /\ FGt(c.N, Zero)
  /\ FGe(c.I0, Zero) /\ FLe(c.I0, c.N)
  /\ FGe(c.R0_param, Zero) /\ FLe(c.R0_param, FSub(c.N, c.I0))
  /\ FGe(c.beta, Zero)
  /\ FGt(c.gamma, Zero)
  /\ FGt(c.total_time, Zero)
  /\ c.time_steps >= 1
  /\ c.intervencao_dia # None =>
       c.beta_pos_intervencao # None /\ FGe(c.beta_pos_intervencao, Zero)

\* Mutant: the recovered forgotten in the initial susceptible count.
InitialSNoRecovered(cfg) == FSub(cfg.N, cfg.I0)

\* Mutant: S kept in a module-level array that a new call does not reset:
\* the run starts from where the previous one ended.
InitialSStale(cfg) ==
  IF all_results = <<>>
  THEN FSub(FSub(cfg.N, cfg.I0), cfg.R0_param)
  ELSE LET last == all_results[Len(all_results)] IN last.S[Len(last.S)]

\* Line 97: S[0] = N - I0 - R0_param
InitialS(cfg) == FSub(FSub(cfg.N, cfg.I0), cfg.R0_param)

\* The frame of run_sir_model before a call and after a return.
NoFrame ==
  /\ alloc = FALSE /\ dt = None /\ t = <<>> /\ S = <<>> /\ I = <<>> /\ R = <<>>
  /\ i = 0 /\ total = None /\ written = {} /\ betaUsed = <<>>

NoFrameNext ==
  /\ alloc' = FALSE /\ dt' = None /\ t' = <<>> /\ S' = <<>> /\ I' = <<>> /\ R' = <<>>
  /\ i' = 0 /\ total' = None /\ written' = {} /\ betaUsed' = <<>>

Raise(e) == pc' = "error" /\ err' = e

(***************************************************************************)
(* The configurations explored                                             *)
(***************************************************************************)
\* The largest float below 8 and the smallest float above 2: values whose
\* last mantissa bit is set, as almost every measured quantity has.
Below8 == Fin(Pow2(Prec) - 1, 3 - Prec)

Above2 == Fin(Pow2(Prec - 1) + 1, 2 - Prec)

Populations == {FromInt(4), FromInt(7), Below8}

Infected0 == {Zero, FromInt(1), FromRatio(7, 3), FromInt(4)}

Recovered0 == {Zero, FromInt(1), FromRatio(7, 3), Above2}

Betas == {Zero, FromRatio(1, 2), FromInt(3)}

Gammas == {FromRatio(1, 10), FromInt(1)}

Horizons == {FromInt(3), FromInt(5)}

\* (intervencao_dia, beta_pos_intervencao) of the valid configurations.
Interventions ==
  {<<None, None>>} \cup
  {<<d, FromRatio(3, 20)>> : d \in {FromInt(1), FromRatio(5, 2)}}

ValidConfigs ==
  {c \in {Config(n, i0, r0, b, g, tt, ts, iv[1], iv[2]) :
            n \in Populations, i0 \in Infected0, r0 \in Recovered0,
            b \in Betas, g \in Gammas, tt \in Horizons,
            ts \in 1..MaxSteps, iv \in Interventions} : ValidConfig(c)}

\* Configurations outside the constraints: no steps, no population, or an
\* intervention day without its rate.
InvalidConfigs ==
  {c \in {Config(n, i0, Zero, b, FromInt(1), FromInt(3), ts, iv[1], iv[2]) :
            n \in {Zero, FromInt(-4), FromInt(4)},
            i0 \in {Zero, FromInt(1)},
            b \in {FromRatio(1, 2), FromInt(3)},
            ts \in (-2)..MaxSteps,
            iv \in {<<None, None>>, <<FromInt(1), None>>,
                    <<FromInt(10), None>>, <<FromInt(1), FromRatio(3, 20)>>}} :
     ~ValidConfig(c)}

\* The scenario of the specification's examples, without and with the late
\* intervention (scenarios 1 and 3 of the program's list, at population 1000).
ScenarioBase ==
  Config(FromInt(1000), FromInt(1), Zero, FromRatio(1, 2), FromRatio(1, 10),
         FromInt(200), 200, None, None)

ScenarioIntervention ==
  Config(FromInt(1000), FromInt(1), Zero, FromRatio(1, 2), FromRatio(1, 10),
         FromInt(200), 200, FromInt(50), FromRatio(3, 20))

\* A few configurations for lists of several runs.
ListConfigs ==
  {Config(FromInt(7), FromInt(4), FromInt(1), FromInt(3), FromInt(1),
          FromInt(3), 2, None, None),
   Config(FromInt(7), FromInt(1), Zero, FromRatio(1, 2), FromRatio(1, 10),
          FromInt(5), 2, FromRatio(5, 2), FromRatio(3, 20)),
   Config(FromInt(4), FromInt(1), Zero, FromRatio(1, 2), FromRatio(1, 10),
          FromInt(3), 1, None, None)}

ScenarioLists ==
  {<<c>> : c \in ValidConfigs \cup InvalidConfigs}
  \cup {<<a, b>> : a \in ListConfigs, b \in ListConfigs}
  \cup {<<a, b, c>> : a \in ListConfigs, b \in ListConfigs, c \in ListConfigs}
  \cup {<<ScenarioBase, ScenarioIntervention>>}

Init ==
  /\ datas \in ScenarioLists
  /\ idx = 1
  /\ pc = "main"
  /\ err = "none"
  /\ all_results = <<>>
  /\ NoFrame

(***************************************************************************)
(* Actions                                                                 *)
(***************************************************************************)
\* Lines 220-237 and 87-97: the main loop calls run_sir_model, which computes
\* dt and the time axis, allocates the arrays and sets index 0.
Call ==
  /\ pc = "main" /\ idx <= Len(datas)
  /\ UNCHANGED <<datas, idx, all_results, i, total, betaUsed>>
  /\ LET c == Cfg
         n == c.time_steps
     IN IF n = 0
        THEN \* line 87: total_time / 0 in Python
             /\ Raise("ZeroDivisionError")
             /\ UNCHANGED <<alloc, dt, t, S, I, R, written>>
        ELSE IF n < -1
        THEN \* line 88: np.linspace refuses a negative number of samples
             /\ Raise("ValueError")
             /\ dt' = FDiv(c.total_time, FromInt(n))
             /\ UNCHANGED <<alloc, t, S, I, R, written>>
        ELSE IF n = -1
        THEN \* line 95: I[0] of an empty array
             /\ Raise("IndexError")
             /\ dt' = FDiv(c.total_time, FromInt(n))
             /\ alloc' = TRUE
             /\ UNCHANGED <<t, S, I, R, written>>
        ELSE /\ pc' = "loop" /\ err' = err
             /\ dt' = FDiv(c.total_time, FromInt(n))
             /\ t' = Linspace(c.total_time, n)
             /\ alloc' = TRUE
             /\ I' = [Zeros(n + 1) EXCEPT ![1] = c.I0]
             /\ R' = [Zeros(n + 1) EXCEPT ![1] = c.R0_param]
             /\ S' = [Zeros(n + 1) EXCEPT ![1] = InitialS(c)]
             /\ written' = {0}

\* Lines 100-130: one iteration of the loop.
Step ==
  /\ pc = "loop" /\ LoopRuns(Cfg, i)
  /\ UNCHANGED <<datas, idx, all_results, alloc, dt, t>>
  /\ LET c  == Cfg
         k  == i + 1
         b  == CurrentBeta(c, t[k])
     IN IF b = None
        THEN \* line 108: -None
             /\ Raise("TypeError")
             /\ UNCHANGED <<S, I, R, i, total, written, betaUsed>>
        ELSE LET s1  == ClampLow(Euler(S[k], DerivS(b, S[k], I[k], c.N), dt))
                 i1  == ClampLow(Euler(I[k], DerivI(b, S[k], I[k], c.N, c.gamma), dt))
                 r1  == ClampHigh(c.N, Euler(R[k], DerivR(c.gamma, I[k]), dt))
                 tot == Total(s1, i1, r1)
             IN /\ S' = [S EXCEPT ![k + 1] = Normalise(s1, tot, c.N)]
                /\ I' = [I EXCEPT ![k + 1] = Normalise(i1, tot, c.N)]
                /\ R' = [R EXCEPT ![k + 1] = Normalise(r1, tot, c.N)]
                /\ total' = tot
                /\ i' = i + 1
                /\ written' = written \cup {i + 1}
                /\ betaUsed' = Append(betaUsed, b)
                /\ UNCHANGED <<pc, err>>

\* Lines 133 and 240-246: the call returns and its result is collected.
Return ==
  /\ pc = "loop" /\ ~LoopRuns(Cfg, i)
  /\ all_results' = Append(all_results,
       [t |-> t, S |-> S, I |-> I, R |-> R, cfg |-> Cfg, iters |-> i,
        written |-> written, betaUsed |-> betaUsed])
  /\ idx' = idx + 1
  /\ pc' = "main"
  /\ NoFrameNext
  /\ UNCHANGED <<datas, err>>

\* Line 251 on: every scenario is simulated; what follows only plots.
Exit ==
  /\ pc = "main" /\ idx > Len(datas)
  /\ pc' = "exit"
  /\ UNCHANGED <<datas, idx, err, alloc, dt, t, S, I, R, i, total, written,
                 betaUsed, all_results>>

Next == Call \/ Step \/ Return \/ Exit

Spec == Init /\ [][Next]_vars

(***************************************************************************)
(* Vocabulary of the properties                                            *)
(***************************************************************************)
FAbs(x) == IF FLt(x, Zero) THEN FNeg(x) ELSE x

\* The tolerance of the properties: 8 units of roundoff (2^-Prec each),
\* relative.  (For float64 the specification suggests 1e-6.)
Tol == Round(1, 3 - Prec)

OnePlusTol == FAdd(FromInt(1), Tol)

OneMinusTol == FSub(FromInt(1), Tol)

\* x and y differ by at most Tol * scale.
Within(x, y, scale) == FLe(FAbs(FSub(x, y)), FMul(scale, Tol))

\* A call of run_sir_model is in progress on a valid configuration.
RunningValid == pc = "loop" /\ ValidConfig(Cfg)

\* np.max of an array (line 188).
PeakOf(arr) ==
  CHOOSE x \in {arr[k] : k \in DOMAIN arr} : \A k \in DOMAIN arr : FGe(x, arr[k])

ScenarioRun == datas = <<ScenarioBase, ScenarioIntervention>>

(***************************************************************************)
(* C1                                                                      *)
(***************************************************************************)
\* C1: at every index written so far of a run on a valid configuration,
\* S + I + R equals the population within the tolerance (index 0 and the
\* steps where a compartment was clamped included).
C1_Conservation ==
  RunningValid =>
    \A k \in written : Within(Total(S[k + 1], I[k + 1], R[k + 1]), Cfg.N, Cfg.N)

\* A step clamped S to 0, left a total far above N, and was normalised.
C1_Witness ==
  /\ RunningValid /\ i >= 1
  /\ S[i + 1] = Zero /\ S[i] # Zero
  /\ FGt(total, FMul(Cfg.N, OnePlusTol))
  /\ Within(Total(S[i + 1], I[i + 1], R[i + 1]), Cfg.N, Cfg.N)

(***************************************************************************)
(* C2                                                                      *)
(***************************************************************************)
\* C2: at every index of a run on a valid configuration S >= 0, I >= 0 and
\* 0 <= R <= N; the normalisation after the clamp never pushes R above N.
C2_Bounds ==
  RunningValid =>
    \A k \in written :
      /\ FGe(S[k + 1], Zero)
      /\ FGe(I[k + 1], Zero)
      /\ FGe(R[k + 1], Zero)
      /\ FLe(R[k + 1], Cfg.N)

(***************************************************************************)
(* C3                                                                      *)
(***************************************************************************)
MissingRate(c) == c.intervencao_dia # None /\ c.beta_pos_intervencao = None

InvalidArgs(c) == c.time_steps <= 0 \/ ~FGt(c.N, Zero) \/ MissingRate(c)

InCall == pc \in {"loop", "error"}

\* C3 as stated: a call with steps <= 0, population <= 0 or a missing
\* intervention rate ends in an error before any array is allocated and
\* before any step runs.
C3_ErrorBeforeAllocation ==
  (InCall /\ InvalidArgs(Cfg)) => (pc = "error" /\ ~alloc /\ i = 0)

\* C3 amended: nothing is validated up front.  time_steps = 0 fails at the
\* division of line 87 and time_steps <= -2 inside np.linspace, both before
\* I, R, S are allocated; time_steps = -1 fails at I[0] = I0, after the
\* allocation; a missing rate fails only at the first step that starts at or
\* after the intervention day, after every earlier step has run; a
\* population <= 0 raises nothing and the run completes.
C3_NoValidation ==
  /\ InCall =>
       /\ Cfg.time_steps = 0 =>
            pc = "error" /\ err = "ZeroDivisionError" /\ ~alloc /\ i = 0
       /\ Cfg.time_steps < -1 =>
            pc = "error" /\ err = "ValueError" /\ ~alloc /\ i = 0
       /\ Cfg.time_steps = -1 =>
            pc = "error" /\ err = "IndexError" /\ alloc /\ i = 0
       /\ Cfg.time_steps >= 1 =>
            /\ alloc
            /\ pc = "error" =>
                 /\ err = "TypeError" /\ MissingRate(Cfg)
                 /\ FGe(t[i + 1], Cfg.intervencao_dia)
            /\ MissingRate(Cfg) =>
                 \A k \in 1..i : FLt(t[k], Cfg.intervencao_dia)
  /\ \A r \in DOMAIN all_results :
       LET c == all_results[r].cfg
       IN /\ c.time_steps >= 1
          /\ all_results[r].iters = c.time_steps
          /\ MissingRate(c) =>
               \A k \in 1..c.time_steps : FLt(all_results[r].t[k], c.intervencao_dia)

\* The missing rate is met only at the second step: the arrays are
\* allocated and one step has run.
C3_Witness ==
  /\ pc = "error" /\ err = "TypeError" /\ alloc /\ i >= 1
  /\ MissingRate(Cfg)

(***************************************************************************)
(* C4                                                                      *)
(***************************************************************************)
\* C4: the rate of step k is beta while t[k] < intervencao_dia and
\* beta_pos_intervencao from the first step with t[k] >= intervencao_dia on,
\* never reverting; without an intervention it is beta at every step.
C4_InterventionSwitch ==
  RunningValid =>
    /\ Len(betaUsed) = i
    /\ \A k \in 1..i :
         /\ Cfg.intervencao_dia = None => betaUsed[k] = Cfg.beta
         /\ (Cfg.intervencao_dia # None /\ FLt(t[k], Cfg.intervencao_dia)) =>
              betaUsed[k] = Cfg.beta
         /\ (Cfg.intervencao_dia # None /\ FGe(t[k], Cfg.intervencao_dia)) =>
              \A j \in k..i : betaUsed[j] = Cfg.beta_pos_intervencao

\* A run switched exactly at a step whose start time equals the day.
C4_Witness ==
  /\ RunningValid /\ i >= 2
  /\ Cfg.intervencao_dia # None
  /\ Cfg.beta # Cfg.beta_pos_intervencao
  /\ t[i] = Cfg.intervencao_dia
  /\ betaUsed[i - 1] = Cfg.beta
  /\ betaUsed[i] = Cfg.beta_pos_intervencao

(***************************************************************************)
(* C5                                                                      *)
(***************************************************************************)
\* C5 as stated: in the example scenario the run with the intervention at
\* day 50 has a strictly lower peak of I than the run without it.
C5_PeakStrictlyLower ==
  (pc = "exit" /\ ScenarioRun) =>
    FLt(PeakOf(all_results[2].I), PeakOf(all_results[1].I))

\* C5 amended: the two runs coincide up to index 50, the peak of the run
\* without intervention lies in that part, and the two peaks are equal; the
\* intervention lowers I only after day 50.
C5_PeakEqual ==
  (pc = "exit" /\ ScenarioRun) =>
    /\ \A k \in 1..51 : all_results[2].I[k] = all_results[1].I[k]
    /\ \E k \in 1..51 : all_results[1].I[k] = PeakOf(all_results[1].I)
    /\ PeakOf(all_results[2].I) = PeakOf(all_results[1].I)
    /\ \A k \in 53..201 : FLt(all_results[2].I[k], all_results[1].I[k])

\* Both runs of the scenario are done, and the intervention has acted: the
\* final recovered count is lower with it.
C5_Witness ==
  /\ pc = "exit" /\ ScenarioRun
  /\ Len(all_results) = 2
  /\ all_results[2].betaUsed[51] = ScenarioIntervention.beta_pos_intervencao
  /\ FLt(all_results[2].R[201], all_results[1].R[201])

(***************************************************************************)
(* C6                                                                      *)
(***************************************************************************)
\* C6 as stated: with I0 = 0, I stays 0, S stays N - R0 and R stays R0,
\* exactly, at every index.
C6_NoEpidemicExact ==
  (RunningValid /\ Cfg.I0 = Zero) =>
    \A k \in written :
      /\ I[k + 1] = Zero
      /\ S[k + 1] = FSub(Cfg.N, Cfg.R0_param)
      /\ R[k + 1] = Cfg.R0_param

\* C6 amended: with I0 = 0, I is exactly 0 at every index, and S and R stay
\* at their initial values within the tolerance; exactly so when the initial
\* S + I + R is N in floating point (integer populations, for one).
C6_NoEpidemic ==
  (RunningValid /\ Cfg.I0 = Zero) =>
    \A k \in written :
      /\ I[k + 1] = Zero
      /\ Within(S[k + 1], InitialS(Cfg), Cfg.N)
      /\ Within(R[k + 1], Cfg.R0_param, Cfg.N)
      /\ FEq(Total(S[1], I[1], R[1]), Cfg.N) =>
           S[k + 1] = InitialS(Cfg) /\ R[k + 1] = Cfg.R0_param

\* No infection, yet the normalisation moved S: the rounded initial total
\* is not N.
C6_Witness ==
  /\ RunningValid /\ Cfg.I0 = Zero /\ i >= 1
  /\ I[i + 1] = Zero
  /\ S[i + 1] # S[1]
  /\ Within(S[i + 1], S[1], Cfg.N)

(***************************************************************************)
(* C7                                                                      *)
(***************************************************************************)
AllValid == \A k \in DOMAIN datas : ValidConfig(datas[k])

Increasing(arr) == \A k \in 1..(Len(arr) - 1) : FLt(arr[k], arr[k + 1])

C7_Shape ==
  /\ RunningValid =>
       /\ i <= Cfg.time_steps
       /\ written = 0..i
       /\ Len(t) = Cfg.time_steps + 1 /\ Len(S) = Len(t)
       /\ Len(I) = Len(t) /\ Len(R) = Len(t)
  /\ (pc = "error" => ~ValidConfig(Cfg))
  /\ \A r \in DOMAIN all_results :
       LET res == all_results[r]
           n   == res.cfg.time_steps
       IN ValidConfig(res.cfg) =>
            /\ res.iters = n
            /\ res.written = 0..n
            /\ Len(res.t) = n + 1 /\ Len(res.S) = n + 1
            /\ Len(res.I) = n + 1 /\ Len(res.R) = n + 1
            /\ res.t[1] = Zero /\ res.t[n + 1] = res.cfg.total_time
            /\ Increasing(res.t)
            /\ \A k \in 1..n :
                 Within(FSub(res.t[k + 1], res.t[k]),
                        FDiv(res.cfg.total_time, FromInt(n)), res.cfg.total_time)

Completed == pc = "exit" /\ Len(all_results) = Len(datas)

\* C7: on valid configurations run_sir_model never raises, runs exactly
\* time_steps iterations (the loop index never passes time_steps, and the
\* call returns when it gets there) and returns four sequences of
\* time_steps + 1 entries, every index written, the time axis going from 0
\* to total_time in equal increments.
C7_Totality ==
  /\ C7_Shape
  /\ pc \in {"main", "loop", "error", "exit"}
  /\ AllValid => (pc # "error" /\ (pc = "exit" => Completed))

\* A run of the largest step count has returned its full result.
C7_Witness ==
  /\ Completed /\ AllValid
  /\ \E r \in DOMAIN all_results :
       /\ all_results[r].cfg.time_steps >= MaxSteps
       /\ all_results[r].iters = all_results[r].cfg.time_steps
       /\ all_results[r].written = 0..all_results[r].cfg.time_steps

C9_TotalPositive ==
  (RunningValid /\ total # None) => (IsFin(total) /\ FGt(total, Zero))

\* S and I are both 0 after a step that clamped I; R keeps the total up.
C9_Witness ==
  /\ RunningValid /\ i >= 1
  /\ S[i + 1] = Zero /\ I[i + 1] = Zero /\ I[i] # Zero
  /\ FGt(total, Zero)

(***************************************************************************)
(* C10                                                                     *)
(***************************************************************************)
\* C10 as stated: on valid configurations the total after the clamp is
\* >= N at every step, so nothing is scaled up, and S never increases.
C10_NeverScaledUp ==
  RunningValid =>
    /\ total # None => FGe(total, Cfg.N)
    /\ \A k \in 1..i : FLe(S[k + 1], S[k])

\* C10 amended: the total after the clamp is >= N up to rounding, the
\* factor N / total exceeds 1 by at most the tolerance, and S increases from
\* one index to the next by at most that relative tolerance.
C10_ScaledUpByRoundingOnly ==
  RunningValid =>
    /\ total # None =>
         /\ FGe(total, FMul(Cfg.N, OneMinusTol))
         /\ FLe(Fator(Cfg.N, total), OnePlusTol)
    /\ \A k \in 1..i : FLe(S[k + 1], FMul(S[k], OnePlusTol))

\* Rounding left the total below N and the normalisation raised S.
C10_Witness ==
  /\ RunningValid /\ i >= 1
  /\ FLt(total, Cfg.N)
  /\ FGt(S[i + 1], S[i])
  /\ FLe(S[i + 1], FMul(S[i], OnePlusTol))

====
